---------------------------- MODULE Spec2Model ----------------------------
(***************************************************************************)
(* A model of photo_organizer_prototype.py: the mock blob store, the mock  *)
(* label detector, the JSON-file backed metadata table (MockDynamoDB), the *)
(* token search (MockOpenSearch) and the ingestion pipeline                *)
(* (PhotoOrganizerSystem.upload_and_process).                              *)
(*                                                                         *)
(* Python strings that the program inspects (lower(), split(), `in`) are   *)
(* sequences of one-character strings, so that lower-casing, whitespace    *)
(* splitting and substring search are computed, not assumed.               *)
(***************************************************************************)
EXTENDS Integers, Sequences, FiniteSets, TLC

----------------------------------------------------------------------------
(* Bounds of the model *)

\* Number of upload_and_process calls explored (also the range of the clock).
MaxIngests == 3

\* Number of input/output operations that fail in one run.
MaxFaults == 2

----------------------------------------------------------------------------
(* Strings *)

UpperCase == << "A","B","C","D","E","F","G","H","I","J","K","L","M",
                "N","O","P","Q","R","S","T","U","V","W","X","Y","Z" >>

LowerCase == << "a","b","c","d","e","f","g","h","i","j","k","l","m",
                "n","o","p","q","r","s","t","u","v","w","x","y","z" >>

\* str.lower() on one character.
LowerChar(c) ==
    IF \E i \in 1..Len(UpperCase) : UpperCase[i] = c
    THEN LowerCase[CHOOSE i \in 1..Len(UpperCase) : UpperCase[i] = c]
    ELSE c

\* str.lower()
Lower(s) == [i \in 1..Len(s) |-> LowerChar(s[i])]

\* The characters str.split() treats as separators.
IsSpace(c) == c \in {" ", "\t", "\n"}

\* str.split() without arguments: maximal runs of non-whitespace characters.
RECURSIVE SplitFrom(_, _, _)
SplitFrom(s, i, cur) ==
    IF i > Len(s)
    THEN IF cur = << >> THEN << >> ELSE << cur >>
    ELSE IF IsSpace(s[i])
         THEN (IF cur = << >> THEN << >> ELSE << cur >>) \o SplitFrom(s, i + 1, << >>)
         ELSE SplitFrom(s, i + 1, Append(cur, s[i]))

\* The pieces of s between the occurrences of sep: str.split(sep).
RECURSIVE SplitOn(_, _, _, _)
SplitOn(s, sep, i, cur) ==
    IF i > Len(s) THEN << cur >>
    ELSE IF s[i] = sep THEN << cur >> \o SplitOn(s, sep, i + 1, << >>)
         ELSE SplitOn(s, sep, i + 1, Append(cur, s[i]))

\* Faulty variant of Split: split(" "), which yields an empty token for an
\* empty string and between two adjacent spaces.
SplitOnSpace(s) == SplitOn(s, " ", 1, << >>)

Split(s) == SplitFrom(s, 1, << >>)

\* `needle in hay` for two Python strings: substring search.
StrContains(hay, needle) ==
    \E i \in 0..(Len(hay) - Len(needle)) :
        SubSeq(hay, i + 1, i + Len(needle)) = needle

\* `x in lst` for a Python list: element equality.
ListContains(lst, x) == \E i \in 1..Len(lst) : lst[i] = x

\* os.path.basename: what follows the last "/".
RECURSIVE Basename(_)
Basename(path) ==
    IF \E i \in 1..Len(path) : path[i] = "/"
    THEN Basename(SubSeq(path, 1 + CHOOSE i \in 1..Len(path) : path[i] = "/", Len(path)))
    ELSE path

\* f"{user_id}/{filename}"
S3Key(uid, fname) == uid \o << "/" >> \o fname

----------------------------------------------------------------------------
(* MockRekognition.detect_labels *)

BaseLabels ==
    << << "P","e","r","s","o","n" >>,
       << "I","n","d","o","o","r" >>,
       << "S","c","r","e","e","n","s","h","o","t" >> >>

ErrorLabels ==
    << << "T","e","x","t" >>,
       << "E","r","r","o","r"," ","M","e","s","s","a","g","e" >>,
       << "C","o","m","p","u","t","e","r" >>,
       << "M","o","n","i","t","o","r" >> >>

SearchLabels ==
    << << "W","e","b"," ","P","a","g","e" >>,
       << "S","e","a","r","c","h"," ","R","e","s","u","l","t","s" >>,
       << "U","I" >>,
       << "I","n","t","e","r","n","e","t" >> >>

LoginLabels ==
    << << "F","o","r","m" >>,
       << "L","o","g","i","n"," ","S","c","r","e","e","n" >>,
       << "S","e","c","u","r","i","t","y" >> >>

JobLabels ==
    << << "D","o","c","u","m","e","n","t" >>,
       << "R","e","s","u","m","e" >>,
       << "B","u","s","i","n","e","s","s" >> >>

\* The label list built from the keywords found in the lower-cased key.
LabelsFor(image_key) ==
    LET lower_key == Lower(image_key)
    IN  BaseLabels
        \o (IF StrContains(lower_key, << "e","r","r","o","r" >>) THEN ErrorLabels ELSE << >>)
        \o (IF StrContains(lower_key, << "s","e","a","r","c","h" >>) THEN SearchLabels ELSE << >>)
        \o (IF StrContains(lower_key, << "l","o","g","i","n" >>) THEN LoginLabels ELSE << >>)
        \o (IF StrContains(lower_key, << "j","o","b" >>) THEN JobLabels ELSE << >>)

\* The confidences random.uniform(85.0, 99.9) can draw, as whole numbers.
ConfLow == 85
ConfHigh == 99

\* The value random.uniform yields for the i-th label of a call seeded with
\* `seed`: some number in [ConfLow, ConfHigh].
Confidence(seed, i) == ConfLow + ((seed + i) % (ConfHigh - ConfLow + 1))

\* detect_labels: one {Name, Confidence} entry per label, in label order.
DetectLabels(image_key, seed) ==
    LET labels == LabelsFor(image_key)
    IN  [i \in 1..Len(labels) |->
            [Name |-> labels[i], Confidence |-> Confidence(seed, i)]]

\* Faulty variant of TagsOf: keeps only the labels of confidence 90 and more.
TagsOfConfident(labels_data) ==
    LET names == [i \in 1..Len(labels_data) |->
                    IF labels_data[i].Confidence >= 90 THEN labels_data[i].Name ELSE << >>]
    IN  SelectSeq(names, LAMBDA n : n # << >>)

\* [l['Name'] for l in labels_data]
TagsOf(labels_data) == [i \in 1..Len(labels_data) |-> labels_data[i].Name]

----------------------------------------------------------------------------
(* Python dict (insertion ordered) as used for MockDynamoDB.table *)

\* Python's None.
None == [none |-> TRUE]

\* {}
EmptyDict == [order |-> << >>, item |-> [k \in {} |-> None]]

DictHas(d, k) == k \in DOMAIN d.item

\* Faulty variant of DictSet: a key already present is deleted and inserted
\* again, which moves it to the end.
DictSetReinsert(d, k, v) ==
    [order |-> SelectSeq(d.order, LAMBDA x : x # k) \o << k >>,
     item  |-> [x \in DOMAIN d.item \cup {k} |-> IF x = k THEN v ELSE d.item[x]]]

\* Faulty variant of DictSet: d.setdefault(k, v), an existing key keeps its value.
DictSetDefault(d, k, v) ==
    [order |-> IF DictHas(d, k) THEN d.order ELSE Append(d.order, k),
     item  |-> [x \in (DOMAIN d.item) \cup {k} |->
                    IF x \in DOMAIN d.item THEN d.item[x] ELSE v]]

\* d[k] = v : a new key goes last, an existing key keeps its position.
DictSet(d, k, v) ==
    [order |-> IF DictHas(d, k) THEN d.order ELSE Append(d.order, k),
     item  |-> [x \in (DOMAIN d.item) \cup {k} |-> IF x = k THEN v ELSE d.item[x]]]

\* d.get(k)
DictGet(d, k) == IF DictHas(d, k) THEN d.item[k] ELSE None

\* list(d.values())
DictValues(d) == [i \in 1..Len(d.order) |-> d.item[d.order[i]]]

----------------------------------------------------------------------------
(* The snapshot file DB_FILE and its JSON text *)

\* json.dump of one metadata dict: its members, in insertion order.
EncodeItem(item) ==
    << << "photo_id", item.photo_id >>,
       << "user_id", item.user_id >>,
       << "timestamp", item.timestamp >>,
       << "tags", item.tags >>,
       << "original_filename", item.original_filename >>,
       << "location", item.location >> >>

\* The value of member `name` in a JSON object text (the last one wins).
Member(members, name) ==
    members[CHOOSE i \in 1..Len(members) :
                /\ members[i][1] = name
                /\ \A j \in (i + 1)..Len(members) : members[j][1] # name][2]

\* json.load of one metadata object.
DecodeItem(members) ==
    [photo_id          |-> Member(members, "photo_id"),
     user_id           |-> Member(members, "user_id"),
     timestamp         |-> Member(members, "timestamp"),
     tags              |-> Member(members, "tags"),
     original_filename |-> Member(members, "original_filename"),
     location          |-> Member(members, "location")]

\* The pieces json.dump hands to fp.write for a table: one per key, then the
\* closing brace.
PairChunk(d, i) == [kind |-> "pair", k |-> d.order[i], v |-> EncodeItem(d.item[d.order[i]])]
EndChunk == [kind |-> "end"]
\* Bytes of a file that no writer has written (a gap left by a truncation).
HoleChunk == [kind |-> "hole"]

\* The complete text json.dump(table) produces.
DumpChunks(d) == [i \in 1..(Len(d.order) + 1) |->
                     IF i <= Len(d.order) THEN PairChunk(d, i) ELSE EndChunk]

\* No file at DB_FILE.
NoFile == [exists |-> FALSE, data |-> << >>]

\* A write of one piece at the writer's own file position `pos` (1-based).
WriteAt(data, pos, chunk) ==
    IF pos <= Len(data)
    THEN [data EXCEPT ![pos] = chunk]
    ELSE data \o [i \in 1..(pos - Len(data) - 1) |-> HoleChunk] \o << chunk >>

\* A write of several pieces, one after the other, from position `pos` on.
RECURSIVE WriteAllAt(_, _, _)
WriteAllAt(data, pos, chunks) ==
    IF chunks = << >> THEN data
    ELSE WriteAllAt(WriteAt(data, pos, Head(chunks)), pos + 1, Tail(chunks))

\* Whether json.load accepts the text: members only, closed by the brace,
\* nothing after it.
ParseOk(data) ==
    /\ Len(data) >= 1
    /\ data[Len(data)].kind = "end"
    /\ \A i \in 1..(Len(data) - 1) : data[i].kind = "pair"

\* json.load of an accepted text: the dict built member by member.
RECURSIVE ParsePairs(_, _)
ParsePairs(data, n) ==
    IF n = 0 THEN EmptyDict
    ELSE DictSet(ParsePairs(data, n - 1), data[n].k, DecodeItem(data[n].v))

\* Faulty variant of LoadTable: stops one member short.
LoadTableShort(data) == ParsePairs(data, IF Len(data) >= 2 THEN Len(data) - 2 ELSE 0)

LoadTable(data) == ParsePairs(data, Len(data) - 1)

----------------------------------------------------------------------------
(* MockOpenSearch.search *)

\* Faulty variant of ItemMatches: a token must equal a whole "/"-separated segment
\* of the id.
ItemMatchesSegments(item, query_tokens) ==
    LET item_tags == [i \in 1..Len(item.tags) |-> Lower(item.tags[i])]
        item_id   == Lower(item.photo_id)
    IN  \E n \in 1..Len(query_tokens) :
            \/ ListContains(item_tags, query_tokens[n])
            \/ ListContains(SplitOn(item_id, "/", 1, << >>), query_tokens[n])

\* Lines 100-108: does one item match any of the query tokens?
ItemMatches(item, query_tokens) ==
    LET item_tags == [i \in 1..Len(item.tags) |-> Lower(item.tags[i])]
        item_id   == Lower(item.photo_id)
    IN  \E n \in 1..Len(query_tokens) :
            \/ ListContains(item_tags, query_tokens[n])
            \/ StrContains(item_id, query_tokens[n])

\* Faulty variant of Search: the items that match every token of the query
\* come first, the items that match only some of them after.
SearchRanked(all_items, query_text) ==
    LET query_tokens == Split(Lower(query_text))
        MatchesAll(item) ==
            \A n \in 1..Len(query_tokens) : ItemMatches(item, << query_tokens[n] >>)
    IN  SelectSeq(all_items, LAMBDA item :
                      ItemMatches(item, query_tokens) /\ MatchesAll(item))
        \o SelectSeq(all_items, LAMBDA item :
                      ItemMatches(item, query_tokens) /\ ~MatchesAll(item))

\* search(query_text) over the items scan() returned.
Search(all_items, query_text) ==
    LET query_tokens == Split(Lower(query_text))
    IN  SelectSeq(all_items, LAMBDA item : ItemMatches(item, query_tokens))

----------------------------------------------------------------------------
(* Inputs explored *)

\* (file_path, user_id) arguments of upload_and_process.
Uploads ==
    { << << "d","/","e","r","r","o","r" >>, << "u","1" >> >>,
      << << "S","e","a","r","c","h" >>,     << "u","1" >> >>,
      << << "S","e","a","r","c","h" >>,     << "U","2" >> >> }

\* query arguments of search_photos.
Queries ==
    { << "e","r","r" >>,
      << "u","1" >>,
      << "1","/","e" >>,
      << "P","E","R","S","O","N" >>,
      << "p","e","r","s" >>,
      << "W","e","b"," ","P","a","g","e" >>,
      << "z","z"," "," ","i","n","d","o","o","r" >>,
      << "u","1"," ","s","e","a" >>,
      << " " >>,
      << >> }

\* Seeds of the random confidences of one detect_labels call.
Seeds == {0, 7}

\* Threads calling upload_and_process, and MockDynamoDB instances.
Procs == {1, 2}
Stores == {1, 2}

----------------------------------------------------------------------------
(* State *)

VARIABLES
    clock,      \* datetime.now(), counted in calls
    faults,     \* input/output operations that have failed so far
    blobs,      \* keys present under S3_BUCKET_DIR
    file,       \* DB_FILE: [exists, data], data the pieces of its text
    db,         \* per MockDynamoDB: [state, table]
    dbOf,       \* which MockDynamoDB the system of each thread owns
    pc,         \* per thread: position in upload_and_process
    frame,      \* per thread: the locals of upload_and_process / _save
    ret,        \* per thread: what the last call returned (None if it raised)
    err,        \* per thread: the error the last call raised ("" if none)
    before,     \* per thread: the call's photo id, and the table and file
                \* observed when the call began
    lastOk,     \* per photo_id: the record of the last call that returned it
    search,     \* the last search_photos call: query, scanned items, results
    scanned     \* the list a caller got from scan() and still holds, and the
                \* table at the time of that call

vars == << clock, faults, blobs, file, db, dbOf, pc, frame, ret, err, before, lastOk, search, scanned >>

NoScan == [done |-> FALSE, items |-> << >>, at |-> EmptyDict]

NoDb == [state |-> "none", table |-> EmptyDict]

NoFrame == [file_path |-> << >>, user_id |-> << >>, filename |-> << >>,
            timestamp |-> 0, s3_key |-> << >>, labels_data |-> << >>,
            metadata |-> None, f_pos |-> 0, n_items |-> 0, n_done |-> 0,
            buf |-> << >>]

NoBefore == [id |-> << >>, table |-> EmptyDict, file |-> NoFile]

NoSearch == [done |-> FALSE, query |-> << >>, all_items |-> << >>, results |-> << >>]

Table(p) == db[dbOf[p]].table

InitCommon ==
    /\ clock = 0
    /\ faults = 0
    /\ blobs = {}
    /\ file = NoFile
    /\ db = [s \in Stores |-> NoDb]
    /\ pc = [p \in Procs |-> "idle"]
    /\ frame = [p \in Procs |-> NoFrame]
    /\ ret = [p \in Procs |-> None]
    /\ err = [p \in Procs |-> ""]
    /\ before = [p \in Procs |-> NoBefore]
    /\ lastOk = EmptyDict
    /\ search = NoSearch
    /\ scanned = NoScan

\* main(): one PhotoOrganizerSystem, one thread.
Init == InitCommon /\ dbOf = [p \in Procs |-> 1]

----------------------------------------------------------------------------
(* MockDynamoDB.__init__ *)

\* Faulty variant of Construct: a text json.load does not accept is ignored
\* and the store starts empty.
ConstructLenient(s) ==
    /\ db[s].state = "none"
    /\ db' = [db EXCEPT ![s] =
                IF file.exists /\ ParseOk(file.data)
                THEN [state |-> "open", table |-> LoadTable(file.data)]
                ELSE [state |-> "open", table |-> EmptyDict]]
    /\ UNCHANGED << clock, faults, blobs, file, dbOf, pc, frame, ret, err, before, lastOk, search, scanned >>

\* Lines 64-68: start empty, or json.load the file if it exists; json.load
\* raises on a text it does not accept and no store object results.
Construct(s) ==
    /\ db[s].state = "none"
    /\ db' = [db EXCEPT ![s] =
                IF ~file.exists THEN [state |-> "open", table |-> EmptyDict]
                ELSE IF ParseOk(file.data)
                     THEN [state |-> "open", table |-> LoadTable(file.data)]
                     ELSE [state |-> "failed", table |-> EmptyDict]]
    /\ UNCHANGED << clock, faults, blobs, file, dbOf, pc, frame, ret, err, before, lastOk, search, scanned >>

----------------------------------------------------------------------------
(* PhotoOrganizerSystem.upload_and_process, step by step *)

\* An operation of the environment (file system, detector) fails.
Fault ==
    /\ faults < MaxFaults
    /\ faults' = faults + 1

\* The exception of a step propagates out of upload_and_process: no handler
\* exists on the way, and the locals of the call are gone.
Raise(p, kind) ==
    /\ pc' = [pc EXCEPT ![p] = "failed"]
    /\ frame' = [frame EXCEPT ![p] = NoFrame]
    /\ err' = [err EXCEPT ![p] = kind]
    /\ ret' = [ret EXCEPT ![p] = None]

\* Lines 124-132: entry; filename and timestamp.
Call(p, path, uid) ==
    /\ pc[p] \in {"idle", "persisted", "failed"}
    /\ db[dbOf[p]].state = "open"
    /\ clock < MaxIngests
    /\ clock' = clock + 1
    /\ frame' = [frame EXCEPT ![p] =
                    [NoFrame EXCEPT !.file_path = path, !.user_id = uid,
                                    !.filename = Basename(path),
                                    !.timestamp = clock + 1]]
    /\ before' = [before EXCEPT ![p] = [id |-> S3Key(uid, Basename(path)),
                                        table |-> Table(p), file |-> file]]
    /\ pc' = [pc EXCEPT ![p] = "upload"]
    /\ ret' = [ret EXCEPT ![p] = None]
    /\ err' = [err EXCEPT ![p] = ""]
    /\ search' = NoSearch
    /\ UNCHANGED scanned
    /\ UNCHANGED << faults, blobs, file, db, dbOf, lastOk >>

\* Faulty variant of UploadOk: the blob is stored under the file name alone,
\* without the user's prefix.
UploadOkFlat(p) ==
    /\ pc[p] = "upload"
    /\ LET key == S3Key(frame[p].user_id, frame[p].filename)
       IN  /\ frame' = [frame EXCEPT ![p].s3_key = key]
           /\ blobs' = blobs \cup {frame[p].filename}
    /\ pc' = [pc EXCEPT ![p] = "detect"]
    /\ UNCHANGED << clock, faults, file, db, dbOf, ret, err, before, lastOk, search, scanned >>

\* Faulty variant of UploadOk: a record without tags is stored as soon as the
\* copy succeeded, to be completed by the detection.
UploadOkEager(p) ==
    /\ pc[p] = "upload"
    /\ LET key == S3Key(frame[p].user_id, frame[p].filename)
       IN  /\ frame' = [frame EXCEPT ![p].s3_key = key]
           /\ blobs' = blobs \cup {key}
           /\ db' = [db EXCEPT ![dbOf[p]].table =
                       DictSet(@, key,
                               [photo_id          |-> key,
                                user_id           |-> frame[p].user_id,
                                timestamp         |-> frame[p].timestamp,
                                tags              |-> << >>,
                                original_filename |-> frame[p].filename,
                                location          |-> "Unknown"])]
    /\ pc' = [pc EXCEPT ![p] = "detect"]
    /\ UNCHANGED << clock, faults, file, dbOf, ret, err, before, lastOk, search, scanned >>

\* Lines 135-136 and MockS3.upload_file: the copy succeeded.
UploadOk(p) ==
    /\ pc[p] = "upload"
    /\ LET key == S3Key(frame[p].user_id, frame[p].filename)
       IN  /\ frame' = [frame EXCEPT ![p].s3_key = key]
           /\ blobs' = blobs \cup {key}
    /\ pc' = [pc EXCEPT ![p] = "detect"]
    /\ UNCHANGED << clock, faults, file, db, dbOf, ret, err, before, lastOk, search, scanned >>

\* Lines 135-136: shutil.copy2 raised (no source file, no space).
UploadFail(p) ==
    /\ pc[p] = "upload"
    /\ Raise(p, "StorageError")
    /\ Fault
    /\ UNCHANGED << clock, blobs, file, db, dbOf, before, lastOk, search, scanned >>

\* Lines 139-150: the detector answered; tags and the metadata dict.
DetectOk(p, seed) ==
    /\ pc[p] = "detect"
    /\ LET labels_data == DetectLabels(frame[p].s3_key, seed)
           tags        == TagsOf(labels_data)
           metadata    == [photo_id          |-> frame[p].s3_key,
                           user_id           |-> frame[p].user_id,
                           timestamp         |-> frame[p].timestamp,
                           tags              |-> tags,
                           original_filename |-> frame[p].filename,
                           location          |-> "Unknown"]
       IN  frame' = [frame EXCEPT ![p].labels_data = labels_data,
                                  ![p].metadata = metadata]
    /\ pc' = [pc EXCEPT ![p] = "put"]
    /\ UNCHANGED << clock, faults, blobs, file, db, dbOf, ret, err, before, lastOk, search, scanned >>

\* Faulty variant of DetectFail: the failure is handled by storing a record without
\* tags before it is reported.
DetectFailStored(p) ==
    /\ pc[p] = "detect"
    /\ db' = [db EXCEPT ![dbOf[p]].table =
                DictSet(@, frame[p].s3_key,
                        [photo_id          |-> frame[p].s3_key,
                         user_id           |-> frame[p].user_id,
                         timestamp         |-> frame[p].timestamp,
                         tags              |-> << >>,
                         original_filename |-> frame[p].filename,
                         location          |-> "Unknown"])]
    /\ Raise(p, "DetectionError")
    /\ Fault
    /\ UNCHANGED << clock, blobs, file, dbOf, before, lastOk, search, scanned >>

\* Line 139: the detector call raised.
DetectFail(p) ==
    /\ pc[p] = "detect"
    /\ Raise(p, "DetectionError")
    /\ Fault
    /\ UNCHANGED << clock, blobs, file, db, dbOf, before, lastOk, search, scanned >>

\* Faulty variant of PutItem: the dict stored under a key already present is
\* updated in place, and with it the entry of every list that holds it.
PutItemInPlace(p) ==
    /\ pc[p] = "put"
    /\ LET item == frame[p].metadata
       IN  /\ db' = [db EXCEPT ![dbOf[p]].table = DictSet(@, item.photo_id, item)]
           /\ scanned' = [scanned EXCEPT !.items =
                            [i \in 1..Len(@) |->
                                IF @[i].photo_id = item.photo_id THEN item ELSE @[i]]]
    /\ pc' = [pc EXCEPT ![p] = "open"]
    /\ UNCHANGED << clock, faults, blobs, file, dbOf, frame, ret, err, before, lastOk, search >>

\* Lines 71-72 (put_item): self.table[key] = item; the dict stored before
\* under the key, and a list that holds it, stay as they are.
PutItem(p) ==
    /\ pc[p] = "put"
    /\ LET item == frame[p].metadata
       IN  db' = [db EXCEPT ![dbOf[p]].table = DictSet(@, item.photo_id, item)]
    /\ pc' = [pc EXCEPT ![p] = "open"]
    /\ UNCHANGED << clock, faults, blobs, file, dbOf, frame, ret, err, before, lastOk, search, scanned >>

\* Line 83 (_save): open(DB_FILE, 'w') creates or truncates the file; the
\* file object starts at position 0 with an empty write buffer.
SaveOpenOk(p) ==
    /\ pc[p] = "open"
    /\ file' = [exists |-> TRUE, data |-> << >>]
    /\ frame' = [frame EXCEPT ![p].f_pos = 0, ![p].n_done = 0, ![p].buf = << >>]
    /\ pc' = [pc EXCEPT ![p] = "dump"]
    /\ UNCHANGED << clock, faults, blobs, db, dbOf, ret, err, before, lastOk, search, scanned >>

\* Line 83: open raised (read-only location, no permission).
SaveOpenFail(p) ==
    /\ pc[p] = "open"
    /\ Raise(p, "PersistenceError")
    /\ Fault
    /\ UNCHANGED << clock, blobs, file, db, dbOf, before, lastOk, search, scanned >>

\* Line 84 (json.dump), one fp.write at a time, iterating over the live
\* table: the next member, or after the last member the closing brace.  The
\* piece goes to the write buffer of the file object; when the buffer is full
\* (flush) the buffered text is written to the file at the object's position.
\* A dict whose size changed under the iteration raises RuntimeError: leaving
\* the `with` block closes the file, which writes the buffered text.
Dump(p, flush) ==
    /\ pc[p] = "dump"
    /\ LET d == Table(p)
           i == frame[p].n_done
           f == frame[p]
       IN  IF i > 0 /\ Len(d.order) # f.n_items
           THEN /\ file' = [file EXCEPT !.data = WriteAllAt(@, f.f_pos + 1, f.buf)]
                /\ Raise(p, "PersistenceError")
           ELSE LET chunk == IF i < Len(d.order) THEN PairChunk(d, i + 1) ELSE EndChunk
                    text  == Append(f.buf, chunk)
                IN  /\ file' = IF flush
                               THEN [file EXCEPT !.data = WriteAllAt(@, f.f_pos + 1, text)]
                               ELSE file
                    /\ frame' = [frame EXCEPT
                                    ![p].n_done = i + 1,
                                    ![p].n_items = Len(d.order),
                                    ![p].buf = IF flush THEN << >> ELSE text,
                                    ![p].f_pos = IF flush THEN f.f_pos + Len(text)
                                                 ELSE f.f_pos]
                    /\ pc' = [pc EXCEPT ![p] = IF i < Len(d.order) THEN "dump" ELSE "close"]
                    /\ UNCHANGED << ret, err >>
    /\ UNCHANGED << clock, faults, blobs, db, dbOf, before, lastOk, search, scanned >>

\* Line 84: a write to the file raised (no space left); the file keeps what
\* was written before.
DumpFail(p) ==
    /\ pc[p] \in {"dump", "close"}
    /\ Raise(p, "PersistenceError")
    /\ Fault
    /\ UNCHANGED << clock, blobs, file, db, dbOf, before, lastOk, search, scanned >>

\* End of the `with` block of _save: the file is closed, which writes the
\* buffered text; _save, put_item and upload_and_process return (lines 74,
\* 153-154).
SaveClose(p) ==
    /\ pc[p] = "close"
    /\ file' = [file EXCEPT !.data = WriteAllAt(@, frame[p].f_pos + 1, frame[p].buf)]
    /\ pc' = [pc EXCEPT ![p] = "persisted"]
    /\ ret' = [ret EXCEPT ![p] = frame[p].metadata]
    /\ lastOk' = DictSet(lastOk, frame[p].s3_key, frame[p].metadata)
    /\ frame' = [frame EXCEPT ![p] = NoFrame]
    /\ UNCHANGED << clock, faults, blobs, db, dbOf, err, before, search, scanned >>

\* Lines 134-151: the call is interrupted between two of its steps
\* (KeyboardInterrupt, raised in the running thread): the exception
\* propagates like any other; inside the `with` block of _save, leaving the
\* block closes the file, which writes the buffered text.
Interrupt(p) ==
    /\ pc[p] \in {"upload", "detect", "put", "open", "dump", "close"}
    /\ file' = IF pc[p] \in {"dump", "close"}
               THEN [file EXCEPT !.data = WriteAllAt(@, frame[p].f_pos + 1, frame[p].buf)]
               ELSE file
    /\ Raise(p, "Interrupted")
    /\ Fault
    /\ UNCHANGED << clock, blobs, db, dbOf, before, lastOk, search, scanned >>

----------------------------------------------------------------------------
(* PhotoOrganizerSystem.search_photos *)

\* Faulty variant of SearchPhotos: the tags of the scanned items are
\* lower-cased in place before they are compared.
SearchPhotosLowering(p, query) ==
    /\ pc[p] \in {"idle", "persisted", "failed"}
    /\ db[dbOf[p]].state = "open"
    /\ LET all_items == DictValues(Table(p))
       IN  search' = [done |-> TRUE, query |-> query, all_items |-> all_items,
                      results |-> Search(all_items, query)]
    /\ db' = [db EXCEPT ![dbOf[p]].table.item =
                [id \in DOMAIN @ |->
                    [@[id] EXCEPT !.tags = [i \in 1..Len(@) |-> Lower(@[i])]]]]
    /\ UNCHANGED << clock, faults, blobs, file, dbOf, pc, frame, ret, err, before, lastOk, scanned >>

\* Lines 156-163 and MockOpenSearch.search: scan, filter, return.
SearchPhotos(p, query) ==
    /\ pc[p] \in {"idle", "persisted", "failed"}
    /\ db[dbOf[p]].state = "open"
    /\ LET all_items == DictValues(Table(p))
       IN  search' = [done |-> TRUE, query |-> query, all_items |-> all_items,
                      results |-> Search(all_items, query)]
    /\ UNCHANGED << clock, faults, blobs, file, db, dbOf, pc, frame, ret, err, before, lastOk, scanned >>

\* Lines 79-80 (scan), called by a caller that keeps the returned list: a new
\* list of the dicts the table holds, in the order of the table.
ScanCall(p) ==
    /\ pc[p] \in {"idle", "persisted", "failed"}
    /\ db[dbOf[p]].state = "open"
    /\ scanned' = [done |-> TRUE, items |-> DictValues(Table(p)), at |-> Table(p)]
    /\ UNCHANGED << clock, faults, blobs, file, db, dbOf, pc, frame, ret, err, before, lastOk, search >>

----------------------------------------------------------------------------
(* The process *)

\* The process is killed (or the machine stops) at any point: objects and
\* threads are gone, the bucket directory and DB_FILE stay as they are.
Crash ==
    /\ \E s \in Stores : db[s].state = "open"
    /\ db' = [s \in Stores |-> NoDb]
    /\ pc' = [p \in Procs |-> "idle"]
    /\ frame' = [p \in Procs |-> NoFrame]
    /\ ret' = [p \in Procs |-> None]
    /\ err' = [p \in Procs |-> ""]
    /\ before' = [p \in Procs |-> NoBefore]
    /\ search' = NoSearch
    /\ scanned' = NoScan
    /\ UNCHANGED << clock, faults, blobs, file, dbOf, lastOk >>

\* One step of thread p inside upload_and_process.
IngestStep(p) ==
    \/ UploadOk(p)
    \/ UploadFail(p)
    \/ \E seed \in Seeds : DetectOk(p, seed)
    \/ DetectFail(p)
    \/ PutItem(p)
    \/ SaveOpenOk(p)
    \/ SaveOpenFail(p)
    \/ \E flush \in BOOLEAN : Dump(p, flush)
    \/ DumpFail(p)
    \/ SaveClose(p)
    \/ Interrupt(p)

\* main(), its uploads: a single thread using a single system, where
\* operations of the environment may fail and the process may be killed and
\* started again.
Next ==
    \/ Construct(1)
    \/ \E up \in Uploads : Call(1, up[1], up[2])
    \/ IngestStep(1)
    \/ Crash

Spec == Init /\ [][Next]_vars

\* main(), uploads followed by searches: a single thread using a single
\* system, where no operation of the environment fails and every write
\* reaches the file at once.
SearchNext ==
    \/ Construct(1)
    \/ \E up \in Uploads : Call(1, up[1], up[2])
    \/ UploadOk(1)
    \/ \E seed \in Seeds : DetectOk(1, seed)
    \/ PutItem(1)
    \/ SaveOpenOk(1)
    \/ Dump(1, TRUE)
    \/ SaveClose(1)
    \/ \E query \in Queries : SearchPhotos(1, query)

SearchSpec == Init /\ [][SearchNext]_vars

\* Uploads where the caller also calls scan() between two uploads and keeps
\* the list it got.
ScanNext ==
    \/ Construct(1)
    \/ \E up \in Uploads : Call(1, up[1], up[2])
    \/ UploadOk(1)
    \/ \E seed \in Seeds : DetectOk(1, seed)
    \/ PutItem(1)
    \/ SaveOpenOk(1)
    \/ Dump(1, TRUE)
    \/ SaveClose(1)
    \/ ScanCall(1)

ScanSpec == Init /\ [][ScanNext]_vars

----------------------------------------------------------------------------
(* A pool of threads, each ingesting one photo, through one system or through
   two systems opened on the same DB_FILE; no input or output operation fails *)

ConcInit == InitCommon /\ dbOf \in { [p \in Procs |-> 1], [p \in Procs |-> p] }

\* The steps of thread p that the interpreter itself takes: every step but
\* the detector's answer, which is the detector's to give.
LocalStep(p) ==
    \/ UploadOk(p)
    \/ PutItem(p)
    \/ SaveOpenOk(p)
    \/ \E flush \in BOOLEAN : Dump(p, flush)
    \/ SaveClose(p)

ConcNext ==
    \/ \E p \in Procs : Construct(dbOf[p])
    \/ \E p \in Procs, up \in Uploads :
            pc[p] = "idle" /\ Call(p, up[1], up[2])
    \/ \E p \in Procs, seed \in Seeds : DetectOk(p, seed)
    \/ \E p \in Procs : LocalStep(p)

ConcSpec == ConcInit /\ [][ConcNext]_vars

\* A running thread is scheduled again and again; nothing in the program
\* makes the detector answer or ends the wait for it.
FairSpec == ConcSpec /\ \A p \in Procs : WF_vars(LocalStep(p))

----------------------------------------------------------------------------
(* Properties *)

Returned(p) == pc[p] = "persisted"

Range(seq) == { seq[i] : i \in 1..Len(seq) }

\* C1: when an ingest returns, the record it returns is the one get() finds
\* under user_id + "/" + filename, with that id, the caller's user id, the
\* file's name, the unknown sentinel as location, and as tags the names of
\* the detection result, entry by entry in the detector's order.
C1_IngestReturnsStoredRecord ==
    [][\A p \in Procs :
        (pc[p] = "close" /\ pc'[p] = "persisted") =>
            LET uid    == frame[p].user_id
                fname  == Basename(frame[p].file_path)
                key    == uid \o << "/" >> \o fname
                labels == frame[p].labels_data
                r      == ret'[p]
            IN  /\ r = DictGet(db'[dbOf[p]].table, key)
                /\ r.photo_id = key
                /\ r.user_id = uid
                /\ r.original_filename = fname
                /\ r.location = "Unknown"
                /\ Len(r.tags) = Len(labels)
                /\ \A i \in 1..Len(labels) : r.tags[i] = labels[i].Name]_vars

\* An ingest returned a record with keyword labels that get() finds.
W1_IngestReturned ==
    \E p \in Procs :
        /\ Returned(p)
        /\ Len(ret[p].tags) > Len(BaseLabels)
        /\ DictGet(Table(p), ret[p].photo_id) = ret[p]

\* C2: an ingest that failed in the upload or in the detection returned no
\* record and left the table (get of its id, scan) and the snapshot file as
\* they were when it was called.
C2_UploadOrDetectFailureWritesNothing ==
    \A p \in Procs :
        (pc[p] = "failed" /\ err[p] \in {"StorageError", "DetectionError"}) =>
            /\ ret[p] = None
            /\ DictGet(Table(p), before[p].id) = DictGet(before[p].table, before[p].id)
            /\ DictValues(Table(p)) = DictValues(before[p].table)
            /\ file = before[p].file

\* A detection failed for an id that had a record.
W2_DetectionFailedOnStoredId ==
    \E p \in Procs :
        /\ pc[p] = "failed"
        /\ err[p] = "DetectionError"
        /\ DictHas(before[p].table, before[p].id)

\* C3 (as claimed): an ingest that failed while persisting left the table
\* and the snapshot file as they were when it was called.
C3_PersistFailureLeavesNoRecord ==
    \A p \in Procs :
        (pc[p] = "failed" /\ err[p] = "PersistenceError") =>
            /\ DictGet(Table(p), before[p].id) = DictGet(before[p].table, before[p].id)
            /\ DictValues(Table(p)) = DictValues(before[p].table)
            /\ file = before[p].file

\* C4 (as claimed): the snapshot file, whenever it exists, is a text that
\* loads; during an upsert it is the snapshot from before the call or the
\* complete new one; and no store construction ever fails on it.
C4_SnapshotAlwaysComplete ==
    /\ file.exists => ParseOk(file.data)
    /\ \A p \in Procs :
          pc[p] \in {"open", "dump", "close"} =>
              \/ file = before[p].file
              \/ file = [exists |-> TRUE, data |-> DumpChunks(Table(p))]
    /\ \A s \in Stores : db[s].state # "failed"

\* C5 (as claimed): once the ingests of distinct ids of all threads have
\* returned, the snapshot file is one complete snapshot (the text of no
\* write is mixed with that of another) and holds the record of each.
C5_ConcurrentUpsertsSerialized ==
    ((\A p \in Procs : Returned(p)) /\ ret[1].photo_id # ret[2].photo_id) =>
        /\ file.exists /\ ParseOk(file.data)
        /\ \A p \in Procs :
              DictGet(LoadTable(file.data), ret[p].photo_id) = ret[p]

\* C6: when an upsert has returned, a store constructed from the snapshot
\* file scans the same set of records as the store that wrote it.
C6_DurabilityRoundTrip ==
    \A p \in Procs :
        Returned(p) =>
            /\ file.exists
            /\ ParseOk(file.data)
            /\ Range(DictValues(LoadTable(file.data))) = Range(DictValues(Table(p)))

\* An upsert returned on a table of two records or more.
W6_TwoRecordsPersisted ==
    \E p \in Procs : Returned(p) /\ Len(Table(p).order) >= 2

\* C7: every id that an ingest returned successfully has exactly one record
\* in scan(), with the tags of the last such ingest, and never a record
\* older than that ingest's.
C7_LastWriteWins ==
    \A s \in Stores :
        db[s].state = "open" =>
            \A id \in DOMAIN lastOk.item :
                LET scan == DictValues(db[s].table)
                    at   == { i \in 1..Len(scan) : scan[i].photo_id = id }
                IN  /\ Cardinality(at) = 1
                    /\ \A i \in at :
                          /\ scan[i].tags = lastOk.item[id].tags
                          /\ scan[i].timestamp >= lastOk.item[id].timestamp

\* An id whose record was in the table and in the snapshot was ingested
\* again, next to another record.
W7_ReingestedId ==
    \E p \in Procs :
        /\ Returned(p)
        /\ DictHas(before[p].table, ret[p].photo_id)
        /\ before[p].file.exists /\ ParseOk(before[p].file.data)
        /\ DictHas(LoadTable(before[p].file.data), ret[p].photo_id)
        /\ Len(Table(p).order) >= 2
        /\ Table(p).item[ret[p].photo_id].timestamp
              > before[p].table.item[ret[p].photo_id].timestamp

\* The tokens of a query: the maximal runs without whitespace of its
\* lower-cased text.
TokenSet(query_text) ==
    LET q == Lower(query_text)
    IN  { SubSeq(q, a, b) : << a, b >> \in
            { ab \in (1..Len(q)) \X (1..Len(q)) :
                /\ ab[1] <= ab[2]
                /\ \A i \in ab[1]..ab[2] : ~IsSpace(q[i])
                /\ (ab[1] = 1 \/ IsSpace(q[ab[1] - 1]))
                /\ (ab[2] = Len(q) \/ IsSpace(q[ab[2] + 1])) } }

\* The segments of an id: the maximal runs without "/" of its lower-cased
\* text.
SegmentSet(id) ==
    LET q == Lower(id)
    IN  { SubSeq(q, a, b) : << a, b >> \in
            { ab \in (1..Len(q)) \X (1..Len(q)) :
                /\ ab[1] <= ab[2]
                /\ \A i \in ab[1]..ab[2] : q[i] # "/"
                /\ (ab[1] = 1 \/ q[ab[1] - 1] = "/")
                /\ (ab[2] = Len(q) \/ q[ab[2] + 1] = "/") } }

LowerTagSet(item) == { Lower(t) : t \in Range(item.tags) }

\* Every stretch of the lower-cased id.
SubstringSet(id) ==
    LET q == Lower(id)
    IN  { SubSeq(q, a, b) : a \in 1..Len(q), b \in 1..Len(q) }

\* C8 (as claimed): a scanned record is in the result exactly if a token of
\* the query equals a lower-cased tag or a lower-cased segment of its id.
C8_SearchMatchesTagOrIdSegment ==
    search.done =>
        \A i \in 1..Len(search.all_items) :
            LET item == search.all_items[i]
            IN  (item \in Range(search.results)) <=>
                    (TokenSet(search.query) \cap
                        (LowerTagSet(item) \cup SegmentSet(item.photo_id)) # {})

\* C8 (amended): a scanned record is in the result exactly if a token of the
\* query equals a lower-cased tag or occurs anywhere in its lower-cased id.
C8_SearchMatchesTagOrIdSubstring ==
    search.done =>
        \A i \in 1..Len(search.all_items) :
            LET item == search.all_items[i]
            IN  (item \in Range(search.results)) <=>
                    (TokenSet(search.query) \cap
                        (LowerTagSet(item) \cup SubstringSet(item.photo_id)) # {})

\* A search matched a record by a token that is no tag and no segment of its
\* id, and left out a record whose tag holds the token without being it.
W8_SubstringOfIdMatched ==
    /\ search.done
    /\ \E item \in Range(search.results) :
          TokenSet(search.query) \cap
              (LowerTagSet(item) \cup SegmentSet(item.photo_id)) = {}
    /\ \E item \in Range(search.all_items) : item \notin Range(search.results)

\* C9 (as claimed): a search for a tag of a scanned record, in any letter
\* case, returns that record.
C9_SearchFindsEveryTag ==
    search.done =>
        \A item \in Range(search.all_items) :
            Lower(search.query) \in LowerTagSet(item) =>
                item \in Range(search.results)

\* C10 (as claimed): an ingest waiting for the detector ends, returned or
\* failed.
C10_DetectionWaitIsBounded ==
    \A p \in Procs : (pc[p] = "detect") ~> (pc[p] \in {"persisted", "failed"})

\* The stages an ingestion call may pass from one to the next: Uploaded is
\* "detect", Analyzed is "put" to "close", Persisted is "persisted".
StageOrder ==
    { << "idle", "upload" >>, << "persisted", "upload" >>, << "failed", "upload" >>,
      << "upload", "detect" >>, << "detect", "put" >>, << "put", "open" >>,
      << "open", "dump" >>, << "dump", "close" >>, << "close", "persisted" >> }

\* Whether a record written by the ingestion that began at time t is in the
\* table d, or in the text of the snapshot file.
InTable(d, t) == \E id \in DOMAIN d.item : d.item[id].timestamp = t
InFile(f, t) ==
    \E i \in 1..Len(f.data) :
        f.data[i].kind = "pair" /\ Member(f.data[i].v, "timestamp") = t

\* C11: a call moves from stage to stage in the order upload, detection,
\* upsert, and otherwise only ends as failed or with the process; until its
\* detection has completed and the upsert has begun no record of it is in the
\* table or the file, and a call that ends between its upload and its upsert
\* leaves none.
C11_StagesInOrder ==
    [][\A p \in Procs :
        /\ pc'[p] # pc[p] =>
              \/ << pc[p], pc'[p] >> \in StageOrder
              \/ pc[p] # "idle" /\ pc'[p] \in {"failed", "idle"}
        /\ pc'[p] \in {"upload", "detect", "put"} =>
              /\ ~InTable(db'[dbOf[p]].table, frame'[p].timestamp)
              /\ ~InFile(file', frame'[p].timestamp)
        /\ (pc[p] \in {"detect", "put"} /\ pc'[p] \in {"failed", "idle"}) =>
              /\ \A s \in Stores : ~InTable(db'[s].table, frame[p].timestamp)
              /\ ~InFile(file', frame[p].timestamp)]_vars

\* A call was interrupted after its detection and before its upsert, its blob
\* stored, with another record in the table.
W11_InterruptedBeforeUpsert ==
    \E p \in Procs :
        /\ pc[p] = "failed"
        /\ err[p] = "Interrupted"
        /\ before[p].id \in blobs
        /\ ~DictHas(Table(p), before[p].id)
        /\ Len(Table(p).order) >= 1

\* C12: constructing a store yields the empty table when there is no
\* snapshot file, yields the table whose dump the file is when the file holds
\* one (the table of the last successful ingest, if the file is its dump), and
\* fails, yielding no store, when the file's text is not a complete dump.
C12_ConstructLoadsOrFails ==
    [][\A s \in Stores :
        (db[s].state = "none" /\ db'[s].state # "none") =>
            /\ db'[s].state \in {"open", "failed"}
            /\ ~file.exists =>
                  db'[s].state = "open" /\ db'[s].table = EmptyDict
            /\ (file.exists /\ db'[s].state = "open") =>
                  DumpChunks(db'[s].table) = file.data
            /\ (file.exists /\ file.data = DumpChunks(lastOk)) =>
                  db'[s].state = "open" /\ db'[s].table = lastOk
            /\ db'[s].state = "failed" =>
                  file.exists /\ \A i \in 1..Len(file.data) : file.data[i].kind # "end"]_vars

\* Construction failed on a snapshot file that holds a record and lacks its
\* end.
W12_ConstructFailedOnCorruptFile ==
    \E s \in Stores :
        /\ db[s].state = "failed"
        /\ file.exists
        /\ Len(file.data) >= 1
        /\ file.data[Len(file.data)].kind = "pair"

\* C13: a search whose query is empty or holds whitespace only returns the
\* empty list whatever the table holds, and a search none of whose tokens is a
\* tag or a stretch of the id of any scanned record returns the empty list.
C13_NoTokensOrNoMatchIsEmpty ==
    search.done =>
        /\ (\A i \in 1..Len(search.query) : IsSpace(search.query[i])) =>
              search.results = << >>
        /\ (\A i \in 1..Len(search.all_items) :
                TokenSet(search.query) \cap
                    (LowerTagSet(search.all_items[i])
                        \cup SubstringSet(search.all_items[i].photo_id)) = {}) =>
              search.results = << >>

\* A search with a query of whitespace only ran over a table of two records.
W13_BlankQueryOnFilledStore ==
    /\ search.done
    /\ search.query # << >>
    /\ \A i \in 1..Len(search.query) : IsSpace(search.query[i])
    /\ Len(search.all_items) >= 2
    /\ search.results = << >>

\* C14: a step that runs a search leaves the table of every store, the
\* snapshot file and the blobs as they were.
C14_SearchChangesNothing ==
    [][(search'.done /\ search' # search) =>
          /\ db' = db
          /\ file' = file
          /\ blobs' = blobs]_vars

\* A search returned a record of a table that has been saved to the file.
W14_SearchOverSavedTable ==
    /\ search.done
    /\ search.results # << >>
    /\ file.exists
    /\ Len(file.data) >= 2
    /\ blobs # {}

\* C15: the list a search returns is the scanned list with some entries left
\* out: its entries are entries of the scan at increasing positions, none
\* twice, whatever the number of tokens each matches.
C15_ResultIsSubsequenceOfScan ==
    search.done =>
        /\ \E f \in [1..Len(search.results) -> 1..Len(search.all_items)] :
              /\ \A j \in 1..Len(search.results) : search.results[j] = search.all_items[f[j]]
              /\ \A j, k \in 1..Len(search.results) : j < k => f[j] < f[k]
        /\ \A j, k \in 1..Len(search.results) :
              j # k => search.results[j] # search.results[k]

\* A search returned two records of which the second matches every token of
\* the query and the first does not.
W15_LaterResultMatchesMoreTokens ==
    /\ search.done
    /\ Len(search.results) >= 2
    /\ \E t \in TokenSet(search.query) :
          t \notin LowerTagSet(search.results[1]) \cup SubstringSet(search.results[1].photo_id)
    /\ TokenSet(search.query) \subseteq
          LowerTagSet(search.results[2]) \cup SubstringSet(search.results[2].photo_id)

\* C16: the list scan() returned holds one entry for every key the table had
\* at the time of the call, the record then stored under it, in the order of
\* the keys, and stays so whatever is upserted afterwards.
C16_ScanReturnsSnapshot ==
    scanned.done =>
        /\ Len(scanned.items) = Cardinality(DOMAIN scanned.at.item)
        /\ \A i \in 1..Len(scanned.items) :
              /\ scanned.items[i].photo_id = scanned.at.order[i]
              /\ scanned.items[i] = scanned.at.item[scanned.at.order[i]]

\* After a scan that returned one record or more, a record of the returned
\* list has been replaced in the table and a new id has been added.
W16_UpsertsAfterScan ==
    /\ scanned.done
    /\ pc[1] = "persisted"
    /\ Len(Table(1).order) > Len(scanned.items)
    /\ \E i \in 1..Len(scanned.items) :
          /\ DictHas(Table(1), scanned.items[i].photo_id)
          /\ Table(1).item[scanned.items[i].photo_id] # scanned.items[i]

\* The records in the text of the snapshot file.
FileRecords(f) ==
    { DecodeItem(f.data[i].v) : i \in { j \in 1..Len(f.data) : f.data[j].kind = "pair" } }

\* C17: whatever calls returned or failed and whenever the process stopped,
\* every record in the table of a store, and every record in the snapshot
\* file, has its blob stored under the record's id.
C17_EveryRecordHasItsBlob ==
    /\ \A s \in Stores :
          \A id \in DOMAIN db[s].table.item :
              /\ db[s].table.item[id].photo_id = id
              /\ id \in blobs
    /\ \A r \in FileRecords(file) : r.photo_id \in blobs

\* After a failed call, the table holds a record and a blob is stored that
\* has no record.
W17_BlobWithoutRecord ==
    /\ pc[1] = "failed"
    /\ DOMAIN Table(1).item # {}
    /\ \E key \in blobs : ~DictHas(Table(1), key)

\* The position of key k in a dict, 0 if it is absent.
PositionOf(d, k) ==
    IF \E i \in 1..Len(d.order) : d.order[i] = k
    THEN CHOOSE i \in 1..Len(d.order) : d.order[i] = k
    ELSE 0

\* C18: when a call for an id the table already held returns, every id is at
\* the position in the table it had when the call began (so scan() lists the
\* ids in the same order), and the table loaded from the snapshot file lists
\* them in that order too.
C18_ReingestKeepsPositions ==
    \A p \in Procs :
        (Returned(p) /\ DictHas(before[p].table, before[p].id)) =>
            /\ \A id \in DOMAIN before[p].table.item :
                  PositionOf(Table(p), id) = PositionOf(before[p].table, id)
            /\ Len(Table(p).order) = Len(before[p].table.order)
            /\ [i \in 1..Len(Table(p).order) |-> DictValues(Table(p))[i].photo_id]
                  = before[p].table.order
            /\ ParseOk(file.data)
            /\ LoadTable(file.data).order = before[p].table.order

\* A call returned for an id that was first of two ids in the table, with a
\* record other than the one stored before.
W18_ReingestedFirstOfTwo ==
    \E p \in Procs :
        /\ Returned(p)
        /\ Len(before[p].table.order) >= 2
        /\ before[p].table.order[1] = before[p].id
        /\ Table(p).item[before[p].id] # before[p].table.item[before[p].id]

=============================================================================
